---- MODULE Spec2Model ----
(***************************************************************************)
(* State-machine model of train.py (FastGAN training loop): train(),       *)
(* train_d(), crop_image_by_part(), the EMA shadow and the checkpoint      *)
(* save/load path.                                                         *)
(*                                                                         *)
(* A tensor is abstracted to a shape (a 1-D size) and one exact value      *)
(* <<num, exp>> standing for num / 1000^exp, so that the EMA arithmetic    *)
(* with decay 999/1000 is exact.                                           *)
(***************************************************************************)
EXTENDS Integers, Sequences, FiniteSets, TLC

VARIABLES
    pc,                 \* position of the process inside train()
    start_iter,         \* args.start_iter (current_iteration)
    total_iterations,   \* args.iter
    checkpoint,         \* args.ckpt: "none", "own" or the name of a foreign file
    iteration,          \* loop variable of the for loop
    rangeNext,          \* next value range(...) will yield
    netG,               \* generator parameters: sequence of [key, shape, val]
    netD,               \* discriminator parameters
    avg_param_G,        \* EMA shadow: sequence of [shape, val]
    optimizerG,         \* [n, state] of the generator's Adam
    optimizerD,         \* [n, state] of the discriminator's Adam
    gradG,              \* sources accumulated in the generator's .grad
    gradD,              \* sources accumulated in the discriminator's .grad
    file,               \* the checkpoint file of this run name: <<>> or <<record>>
    image,              \* [h, w] of the batch handed to crop_image_by_part
    crops,              \* part -> region returned by crop_image_by_part
    failure,            \* which statement raised, "none" while running
    run,                \* 1 for the first process, 2 for the resumed one
    steps,              \* history: steps taken so far in the current iteration
    executed,           \* history: iteration indices started, in order
    completed,          \* history: iteration indices whose body ran to its end
    saved,              \* history: iteration indices at which torch.save returned
    savedLive,          \* history: live state at the moment of the last save
    swap,               \* history: state immediately before the last EMA swap
    liveG,              \* history: generator values set by init, load or optimizerG
    gSteps,             \* history: number of optimizerG.step() calls that returned
    emaUpdates,         \* history: number of EMA loops entered
    usedGradD,          \* history: gradD at the last optimizerD.step()
    usedGradG,          \* history: gradG at the last optimizerG.step()
    avg0                \* history: EMA shadow when the loop was entered

vars == <<pc, start_iter, total_iterations, checkpoint, iteration, rangeNext,
          netG, netD, avg_param_G, optimizerG, optimizerD, gradG, gradD, file,
          image, crops, failure, run, steps, executed, completed, saved,
          savedLive, swap, liveG, gSteps, emaUpdates, usedGradD, usedGradG, avg0>>

----------------------------------------------------------------------------
(* Bounds *)

MaxSpan == 1        \* total_iterations - start_iter is at most this
MaxUpdates == 2     \* EMA updates one shadow tensor goes through
MaxVal == 1         \* parameter values are drawn from 0..MaxVal
MaxDim == 4         \* image height and width are drawn from 1..MaxDim
ImSize == 2         \* args.im_size of the training runs

(* Program constants *)

save_interval == 1000
DecayNum == 999
DecayDen == 1000

StartIters == {0, 999, 9999, 49999, 50000}
Vals == 0..MaxVal

----------------------------------------------------------------------------
(* Exact scaled values *)

Max(a, b) == IF a >= b THEN a ELSE b
Min(a, b) == IF a <= b THEN a ELSE b

RECURSIVE Pow(_, _)
Pow(b, e) == IF e = 0 THEN 1 ELSE b * Pow(b, e - 1)

Val(n) == <<n, 0>>

\* the two weights exchanged
ema_update_swapped(avg_p, p) ==
    LET e == Max(avg_p[2], p[2])
    IN  <<(DecayDen - DecayNum) * avg_p[1] * Pow(DecayDen, e - avg_p[2])
            + DecayNum * p[1] * Pow(DecayDen, e - p[2]),
          e + 1>>

(* avg_p.mul_(0.999).add_(0.001 * p.data) on exact values *)
ema_update(avg_p, p) ==
    LET e == Max(avg_p[2], p[2])
    IN  <<DecayNum * avg_p[1] * Pow(DecayDen, e - avg_p[2])
            + (DecayDen - DecayNum) * p[1] * Pow(DecayDen, e - p[2]),
          e + 1>>

MaxExp(avg) == IF avg = <<>> THEN 0
               ELSE CHOOSE m \in {avg[i].val[2] : i \in 1..Len(avg)} :
                        \A i \in 1..Len(avg) : avg[i].val[2] <= m

----------------------------------------------------------------------------
(* crop_image_by_part *)

Rows(img) == 0..(img.h - 1)
Cols(img) == 0..(img.w - 1)
Pixels(img) == Rows(img) \X Cols(img)

\* the last branch returning the lower left quadrant again
crop_image_by_part_repeat(img, part) ==
    LET hw == img.h \div 2
    IN  CASE part = 0 -> {px \in Pixels(img) : px[1] < hw /\ px[2] < hw}
          [] part = 1 -> {px \in Pixels(img) : px[1] < hw /\ px[2] >= hw}
          [] part = 2 -> {px \in Pixels(img) : px[1] >= hw /\ px[2] < hw}
          [] part = 3 -> {px \in Pixels(img) : px[1] >= hw /\ px[2] < hw}

crop_image_by_part(img, part) ==
    LET hw == img.h \div 2
    IN  CASE part = 0 -> {px \in Pixels(img) : px[1] < hw /\ px[2] < hw}
          [] part = 1 -> {px \in Pixels(img) : px[1] < hw /\ px[2] >= hw}
          [] part = 2 -> {px \in Pixels(img) : px[1] >= hw /\ px[2] < hw}
          [] part = 3 -> {px \in Pixels(img) : px[1] >= hw /\ px[2] >= hw}

----------------------------------------------------------------------------
(* Networks, state dicts, optimizers *)

GKeys == << <<"init", "weight">>, <<"feat_8", "weight">>, <<"to_big", "weight">> >>
GShapes == <<1, 2, 2>>
DKeys == << <<"down_from_big", "weight">> >>
DShapes == <<2>>

Net(keys, shapes, v) ==
    [i \in 1..Len(keys) |-> [key |-> keys[i], shape |-> shapes[i], val |-> Val(v)]]

Generator == Net(GKeys, GShapes, 0)
Discriminator == Net(DKeys, DShapes, 0)

Adam(net) == [n |-> Len(net), state |-> <<>>]

Values(net) == [i \in 1..Len(net) |-> net[i].val]

SetValues(net, v) == [i \in 1..Len(net) |-> [net[i] EXCEPT !.val = Val(v)]]

\* an in-place operation on a tensor of shape dst with an operand of shape src
Broadcastable(src, dst) == src = dst \/ src = 1

\* k.replace('module.', '')
StripModule(k) == SelectSeq(k, LAMBDA c : c # "module")

\* net.load_state_dict({k.replace('module.', ''): v ...}, strict=False)
load_state_dict(net, sd) ==
    LET Match(i) == {j \in 1..Len(sd) : StripModule(sd[j].key) = net[i].key}
        Last(S) == CHOOSE j \in S : \A k \in S : k <= j
        bad == {i \in 1..Len(net) :
                   Match(i) # {} /\ sd[Last(Match(i))].shape # net[i].shape}
    IN  [ok  |-> bad = {},
         net |-> [i \in 1..Len(net) |->
                     IF Match(i) # {} /\ bad = {}
                     THEN [net[i] EXCEPT !.val = sd[Last(Match(i))].val]
                     ELSE net[i]]]

\* optimizer.load_state_dict(sd)
opt_load_state_dict(opt, sd) ==
    IF sd.n # opt.n
    THEN [ok |-> FALSE, opt |-> opt]
    ELSE [ok |-> TRUE, opt |-> [n |-> opt.n, state |-> sd.state]]

\* optimizer.step(): raises when a state tensor does not have its parameter's
\* shape; otherwise every parameter of the network moves to the value v
opt_step(opt, net, v) ==
    LET st == IF opt.state = <<>>
              THEN [i \in 1..opt.n |-> [step |-> 0, shape |-> net[i].shape]]
              ELSE opt.state
        ok == \A i \in 1..opt.n : st[i].shape = net[i].shape
    IN  [ok  |-> ok,
         opt |-> IF ok
                 THEN [opt EXCEPT !.state =
                          [i \in 1..opt.n |-> [st[i] EXCEPT !.step = @ + 1]]]
                 ELSE opt,
         net |-> IF ok THEN SetValues(net, v) ELSE net]

\* for p, avg_p in zip(netG.parameters(), avg_param_G): avg_p.mul_().add_()
ema_loop(net, avg) ==
    LET n == Min(Len(net), Len(avg))
        bad == {i \in 1..n : ~Broadcastable(net[i].shape, avg[i].shape)}
        stop == IF bad = {} THEN n + 1
                ELSE CHOOSE i \in bad : \A k \in bad : i <= k
    IN  [ok  |-> bad = {},
         avg |-> [i \in 1..Len(avg) |->
                     IF i < stop /\ i <= n
                     THEN [avg[i] EXCEPT !.val = ema_update(@, net[i].val)]
                     ELSE avg[i]]]

\* operation.copy_G_params: a deep copy of the parameter tensors
copy_G_params(net) ==
    [i \in 1..Len(net) |-> [shape |-> net[i].shape, val |-> net[i].val]]

\* operation.load_params: p.data.copy_(new_p) over zip(parameters, new_param)
load_params(net, new) ==
    LET n == Min(Len(net), Len(new))
        bad == {i \in 1..n : ~Broadcastable(new[i].shape, net[i].shape)}
        stop == IF bad = {} THEN n + 1
                ELSE CHOOSE i \in bad : \A k \in bad : i <= k
    IN  [ok  |-> bad = {},
         net |-> [i \in 1..Len(net) |->
                     IF i < stop /\ i <= n
                     THEN [net[i] EXCEPT !.val = new[i].val]
                     ELSE net[i]]]

\* the second load_params left out
ema_round_trip_no_restore(net, avg) == load_params(net, avg)

\* backup_para = copy_G_params(netG); load_params(netG, avg_param_G);
\* load_params(netG, backup_para)
ema_round_trip(net, avg) ==
    LET backup_para == copy_G_params(net)
        a == load_params(net, avg)
        b == load_params(a.net, backup_para)
    IN  IF a.ok THEN b ELSE a

\* the live generator parameters stored as the shadow
checkpoint_record_live_ema(g, d, avg, og, od) ==
    [g |-> g, d |-> d, g_ema |-> copy_G_params(g), opt_g |-> og, opt_d |-> od]

\* the record handed to torch.save
checkpoint_record(g, d, avg, og, od) ==
    [g |-> g, d |-> d, g_ema |-> avg, opt_g |-> og, opt_d |-> od]

----------------------------------------------------------------------------
(* Checkpoint files that were not written by this model *)

FullState(shapes) == [i \in 1..Len(shapes) |-> [step |-> 1, shape |-> shapes[i]]]
Shadow(shapes) == [i \in 1..Len(shapes) |-> [shape |-> shapes[i], val |-> Val(1)]]

Compatible ==
    checkpoint_record(Net(GKeys, GShapes, 1), Net(DKeys, DShapes, 1),
                      Shadow(GShapes),
                      [n |-> Len(GShapes), state |-> FullState(GShapes)],
                      [n |-> Len(DShapes), state |-> FullState(DShapes)])

Prefixed(net) == [i \in 1..Len(net) |-> [net[i] EXCEPT !.key = <<"module">> \o @]]

Foreign(name) ==
    CASE name = "data_parallel" ->
            [Compatible EXCEPT !.g = Prefixed(@), !.d = Prefixed(@)]
      [] name = "ema_short"  -> [Compatible EXCEPT !.g_ema = Shadow(<<1, 2>>)]
      [] name = "ema_bcast"  -> [Compatible EXCEPT !.g_ema = Shadow(<<3, 2, 2>>)]
      [] name = "ema_shape"  -> [Compatible EXCEPT !.g_ema = Shadow(<<1, 3, 2>>)]
      [] name = "opt_short"  ->
            [Compatible EXCEPT !.opt_g = [n |-> 2, state |-> FullState(<<1, 2>>)]]
      [] name = "opt_shape"  ->
            [Compatible EXCEPT !.opt_g = [n |-> 3, state |-> FullState(<<1, 3, 2>>)]]
      [] name = "g_shape"    ->
            [Compatible EXCEPT !.g = Net(GKeys, <<1, 3, 2>>, 1)]

ForeignNames == {"data_parallel", "ema_short", "ema_bcast", "ema_shape",
                 "opt_short", "opt_shape", "g_shape"}

----------------------------------------------------------------------------
(* train(): one process from the construction of the networks on *)

NoSwap == [at |-> "none", g |-> <<>>, avg |-> <<>>]

Live == [g |-> Values(netG), d |-> Values(netD), g_ema |-> avg_param_G,
         opt_g |-> optimizerG, opt_d |-> optimizerD]

\* lines 56-113: arguments read, networks, shadow and optimizers built
Fresh(s, t, c) ==
    /\ pc' = "load"
    /\ start_iter' = s
    /\ total_iterations' = t
    /\ checkpoint' = c
    /\ iteration' = s
    /\ rangeNext' = s
    /\ netG' = Generator
    /\ netD' = Discriminator
    /\ avg_param_G' = copy_G_params(Generator)
    /\ optimizerG' = Adam(Generator)
    /\ optimizerD' = Adam(Discriminator)
    /\ gradG' = {}
    /\ gradD' = {}
    /\ image' = [h |-> ImSize, w |-> ImSize]
    /\ crops' = <<>>
    /\ failure' = "none"
    /\ steps' = <<>>
    /\ executed' = <<>>
    /\ completed' = {}
    /\ saved' = {}
    /\ swap' = NoSwap
    /\ liveG' = Values(Generator)
    /\ gSteps' = 0
    /\ emaUpdates' = 0
    /\ usedGradD' = {}
    /\ usedGradG' = {}
    /\ avg0' = copy_G_params(Generator)

\* start_iter and total_iterations, an empty range included
Args == UNION {{<<s, t>> : t \in {u \in (s - 1)..(s + MaxSpan) :
                                          u - s + 1 <= MaxUpdates}} :
               s \in StartIters}

Init ==
    /\ pc = "load"
    /\ \E a \in Args : start_iter = a[1] /\ total_iterations = a[2]
    /\ checkpoint \in {"none"} \cup ForeignNames
    /\ iteration = start_iter
    /\ rangeNext = start_iter
    /\ netG = Generator
    /\ netD = Discriminator
    /\ avg_param_G = copy_G_params(Generator)
    /\ optimizerG = Adam(Generator)
    /\ optimizerD = Adam(Discriminator)
    /\ gradG = {}
    /\ gradD = {}
    /\ file = <<>>
    /\ image = [h |-> ImSize, w |-> ImSize]
    /\ crops = <<>>
    /\ failure = "none"
    /\ run = 1
    /\ steps = <<>>
    /\ executed = <<>>
    /\ completed = {}
    /\ saved = {}
    /\ savedLive = <<>>
    /\ swap = NoSwap
    /\ liveG = Values(Generator)
    /\ gSteps = 0
    /\ emaUpdates = 0
    /\ usedGradD = {}
    /\ usedGradG = {}
    /\ avg0 = copy_G_params(Generator)

Raise(what) == pc' = "aborted" /\ failure' = what

\* lines 115-123
LoadCheckpoint ==
    /\ pc = "load"
    /\ IF checkpoint = "none"
       THEN /\ pc' = "loop"
            /\ UNCHANGED <<netG, netD, avg_param_G, optimizerG, optimizerD,
                           failure, liveG, avg0>>
       ELSE LET ckpt == IF checkpoint = "own" THEN file[1] ELSE Foreign(checkpoint)
                g == load_state_dict(netG, ckpt.g)
                d == load_state_dict(netD, ckpt.d)
                og == opt_load_state_dict(optimizerG, ckpt.opt_g)
                od == opt_load_state_dict(optimizerD, ckpt.opt_d)
            IN  /\ netG' = g.net
                /\ netD' = IF g.ok THEN d.net ELSE netD
                /\ avg_param_G' = IF g.ok /\ d.ok THEN ckpt.g_ema ELSE avg_param_G
                /\ optimizerG' = IF g.ok /\ d.ok THEN og.opt ELSE optimizerG
                /\ optimizerD' = IF g.ok /\ d.ok /\ og.ok THEN od.opt ELSE optimizerD
                /\ liveG' = Values(g.net)
                /\ avg0' = avg_param_G'
                /\ IF g.ok /\ d.ok /\ og.ok /\ od.ok
                   THEN pc' = "loop" /\ UNCHANGED failure
                   ELSE Raise("load")
    /\ UNCHANGED <<start_iter, total_iterations, checkpoint, iteration, rangeNext,
                   gradG, gradD, file, image, crops, run, steps, executed,
                   completed, saved, savedLive, swap, gSteps, emaUpdates,
                   usedGradD, usedGradG>>

\* range(current_iteration, total_iterations)
range_stop_exclusive == total_iterations

\* the stop value of range(current_iteration, total_iterations+1)
range_stop == total_iterations + 1

\* line 129: for iteration in range(current_iteration, total_iterations+1)
LoopHead ==
    /\ pc = "loop"
    /\ IF rangeNext < range_stop
       THEN /\ iteration' = rangeNext
            /\ rangeNext' = rangeNext + 1
            /\ executed' = Append(executed, rangeNext)
            /\ steps' = <<>>
            /\ pc' = "forward"
       ELSE /\ pc' = "done"
            /\ UNCHANGED <<iteration, rangeNext, executed, steps>>
    /\ UNCHANGED <<start_iter, total_iterations, checkpoint, netG, netD,
                   avg_param_G, optimizerG, optimizerD, gradG, gradD, file,
                   image, crops, failure, run, completed, saved, savedLive,
                   swap, liveG, gSteps, emaUpdates, usedGradD, usedGradG, avg0>>

Step(from, to, name) ==
    /\ pc = from
    /\ pc' = to
    /\ steps' = Append(steps, name)

\* lines 130-138: next(dataloader), noise, netG(noise), DiffAugment
Forward ==
    /\ Step("forward", "d_zero", "forward")
    /\ swap' = NoSwap
    /\ UNCHANGED <<start_iter, total_iterations, checkpoint, iteration, rangeNext,
                   netG, netD, avg_param_G, optimizerG, optimizerD, gradG, gradD,
                   file, image, crops, failure, run, executed, completed, saved,
                   savedLive, liveG, gSteps, emaUpdates, usedGradD, usedGradG,
                   avg0>>

\* netD.zero_grad() left out
ZeroGradD_missing ==
    /\ Step("d_zero", "d_real", "d_zero_grad")
    /\ UNCHANGED <<start_iter, total_iterations, checkpoint, iteration, rangeNext,
                   netG, netD, avg_param_G, optimizerG, optimizerD, gradG, gradD,
                   file, image, crops, failure, run, executed, completed, saved,
                   savedLive, swap, liveG, gSteps, emaUpdates, usedGradD,
                   usedGradG, avg0>>

\* line 141: netD.zero_grad()
ZeroGradD ==
    /\ Step("d_zero", "d_real", "d_zero_grad")
    /\ gradD' = {}
    /\ UNCHANGED <<start_iter, total_iterations, checkpoint, iteration, rangeNext,
                   netG, netD, avg_param_G, optimizerG, optimizerD, gradG,
                   file, image, crops, failure, run, executed, completed, saved,
                   savedLive, swap, liveG, gSteps, emaUpdates, usedGradD,
                   usedGradG, avg0>>

Src(it, what) == [it |-> it, src |-> what]

\* line 143, train_d lines 39-48
TrainDReal ==
    /\ Step("d_real", "d_fake", "d_real")
    /\ \E part \in 0..3 : crops' = (part :> crop_image_by_part(image, part))
    /\ gradD' = gradD \cup {Src(iteration, "d_real")}
    /\ UNCHANGED <<start_iter, total_iterations, checkpoint, iteration, rangeNext,
                   netG, netD, avg_param_G, optimizerG, optimizerD, gradG,
                   file, image, failure, run, executed, completed, saved,
                   savedLive, swap, liveG, gSteps, emaUpdates, usedGradD,
                   usedGradG, avg0>>

\* line 144, train_d lines 50-53: the fake batch is detached
TrainDFake ==
    /\ Step("d_fake", "optD", "d_fake")
    /\ crops' = <<>>
    /\ gradD' = gradD \cup {Src(iteration, "d_fake")}
    /\ UNCHANGED <<start_iter, total_iterations, checkpoint, iteration, rangeNext,
                   netG, netD, avg_param_G, optimizerG, optimizerD, gradG,
                   file, image, failure, run, executed, completed, saved,
                   savedLive, swap, liveG, gSteps, emaUpdates, usedGradD,
                   usedGradG, avg0>>

\* line 145: optimizerD.step()
OptDStep ==
    /\ pc = "optD"
    /\ \E v \in Vals :
          LET r == opt_step(optimizerD, netD, v)
          IN  /\ netD' = r.net
              /\ optimizerD' = r.opt
              /\ IF r.ok
                 THEN /\ pc' = "g_zero"
                      /\ steps' = Append(steps, "optD")
                      /\ usedGradD' = gradD
                      /\ UNCHANGED failure
                 ELSE Raise("optD") /\ UNCHANGED <<steps, usedGradD>>
    /\ UNCHANGED <<start_iter, total_iterations, checkpoint, iteration, rangeNext,
                   netG, avg_param_G, optimizerG, gradG, gradD, file, image,
                   crops, run, executed, completed, saved, savedLive, swap,
                   liveG, gSteps, emaUpdates, usedGradG, avg0>>

\* line 148: netG.zero_grad()
ZeroGradG ==
    /\ Step("g_zero", "g_backward", "g_zero_grad")
    /\ gradG' = {}
    /\ UNCHANGED <<start_iter, total_iterations, checkpoint, iteration, rangeNext,
                   netG, netD, avg_param_G, optimizerG, optimizerD, gradD,
                   file, image, crops, failure, run, executed, completed, saved,
                   savedLive, swap, liveG, gSteps, emaUpdates, usedGradD,
                   usedGradG, avg0>>

\* lines 149-152: err_g.backward() runs through netD into netG
GBackward ==
    /\ Step("g_backward", "optG", "g_backward")
    /\ gradG' = gradG \cup {Src(iteration, "g")}
    /\ gradD' = gradD \cup {Src(iteration, "g")}
    /\ UNCHANGED <<start_iter, total_iterations, checkpoint, iteration, rangeNext,
                   netG, netD, avg_param_G, optimizerG, optimizerD,
                   file, image, crops, failure, run, executed, completed, saved,
                   savedLive, swap, liveG, gSteps, emaUpdates, usedGradD,
                   usedGradG, avg0>>

\* the EMA loop skipped after optimizerG.step()
OptGStep_no_ema ==
    /\ pc = "optG"
    /\ \E v \in Vals :
          LET r == opt_step(optimizerG, netG, v)
          IN  /\ netG' = r.net
              /\ optimizerG' = r.opt
              /\ IF r.ok
                 THEN /\ pc' = "log"
                      /\ steps' = Append(steps, "optG")
                      /\ usedGradG' = gradG
                      /\ gSteps' = gSteps + 1
                      /\ liveG' = Values(r.net)
                      /\ UNCHANGED failure
                 ELSE Raise("optG") /\ UNCHANGED <<steps, usedGradG, gSteps, liveG>>
    /\ UNCHANGED <<start_iter, total_iterations, checkpoint, iteration, rangeNext,
                   netD, avg_param_G, optimizerD, gradG, gradD, file, image,
                   crops, run, executed, completed, saved, savedLive, swap,
                   emaUpdates, usedGradD, avg0>>

\* line 153: optimizerG.step()
OptGStep ==
    /\ pc = "optG"
    /\ \E v \in Vals :
          LET r == opt_step(optimizerG, netG, v)
          IN  /\ netG' = r.net
              /\ optimizerG' = r.opt
              /\ IF r.ok
                 THEN /\ pc' = "ema"
                      /\ steps' = Append(steps, "optG")
                      /\ usedGradG' = gradG
                      /\ gSteps' = gSteps + 1
                      /\ liveG' = Values(r.net)
                      /\ UNCHANGED failure
                 ELSE Raise("optG") /\ UNCHANGED <<steps, usedGradG, gSteps, liveG>>
    /\ UNCHANGED <<start_iter, total_iterations, checkpoint, iteration, rangeNext,
                   netD, avg_param_G, optimizerD, gradG, gradD, file, image,
                   crops, run, executed, completed, saved, savedLive, swap,
                   emaUpdates, usedGradD, avg0>>

\* lines 155-156
EMAUpdate ==
    /\ pc = "ema"
    /\ LET r == ema_loop(netG, avg_param_G)
       IN  /\ avg_param_G' = r.avg
           /\ emaUpdates' = emaUpdates + 1
           /\ IF r.ok
              THEN pc' = "log" /\ steps' = Append(steps, "ema") /\ UNCHANGED failure
              ELSE Raise("ema") /\ UNCHANGED steps
    /\ UNCHANGED <<start_iter, total_iterations, checkpoint, iteration, rangeNext,
                   netG, netD, optimizerG, optimizerD, gradG, gradD, file, image,
                   crops, run, executed, completed, saved, savedLive, swap,
                   liveG, gSteps, usedGradD, usedGradG, avg0>>

\* lines 158-160: print may raise
Log ==
    /\ pc = "log"
    /\ IF iteration % save_interval = 0
       THEN \E printed \in BOOLEAN :
               IF printed THEN pc' = "selfcheck" /\ UNCHANGED failure
                          ELSE Raise("log")
       ELSE pc' = "selfcheck" /\ UNCHANGED failure
    /\ UNCHANGED <<start_iter, total_iterations, checkpoint, iteration, rangeNext,
                   netG, netD, avg_param_G, optimizerG, optimizerD, gradG, gradD,
                   file, image, crops, run, steps, executed, completed, saved,
                   savedLive, swap, liveG, gSteps, emaUpdates, usedGradD,
                   usedGradG, avg0>>

\* lines 162-165
SelfCheck ==
    /\ pc = "selfcheck"
    /\ IF iteration % (save_interval * 10) = 0
       THEN LET r == ema_round_trip(netG, avg_param_G)
            IN  /\ netG' = r.net
                /\ swap' = [at |-> "selfcheck", g |-> Values(netG), avg |-> avg_param_G]
                /\ IF r.ok THEN pc' = "ckpt" /\ UNCHANGED failure
                           ELSE Raise("swap")
       ELSE pc' = "ckpt" /\ UNCHANGED <<netG, swap, failure>>
    /\ UNCHANGED <<start_iter, total_iterations, checkpoint, iteration, rangeNext,
                   netD, avg_param_G, optimizerG, optimizerD, gradG, gradD,
                   file, image, crops, run, steps, executed, completed, saved,
                   savedLive, liveG, gSteps, emaUpdates, usedGradD,
                   usedGradG, avg0>>

\* the condition without iteration > 0
save_due_at_zero(it) ==
    it % (save_interval * 50) = 0 \/ it = total_iterations

\* line 167
save_due(it) ==
    it > 0 /\ (it % (save_interval * 50) = 0 \/ it = total_iterations)

\* lines 167-176: torch.save may raise
Checkpoint ==
    /\ pc = "ckpt"
    /\ IF save_due(iteration)
       THEN LET r == ema_round_trip(netG, avg_param_G)
            IN  /\ netG' = r.net
                /\ swap' = [at |-> "ckpt", g |-> Values(netG), avg |-> avg_param_G]
                /\ \E written \in BOOLEAN :
                      IF r.ok /\ written
                      THEN /\ file' = <<checkpoint_record(r.net, netD, avg_param_G,
                                                          optimizerG, optimizerD)>>
                           /\ savedLive' = <<[g |-> Values(r.net), d |-> Values(netD),
                                              g_ema |-> avg_param_G,
                                              opt_g |-> optimizerG,
                                              opt_d |-> optimizerD]>>
                           /\ saved' = saved \cup {iteration}
                           /\ completed' = completed \cup {iteration}
                           /\ pc' = "loop"
                           /\ UNCHANGED failure
                      ELSE /\ Raise(IF r.ok THEN "save" ELSE "swap")
                           /\ UNCHANGED <<file, savedLive, saved, completed>>
       ELSE /\ pc' = "loop"
            /\ completed' = completed \cup {iteration}
            /\ UNCHANGED <<netG, swap, file, savedLive, saved, failure>>
    /\ UNCHANGED <<start_iter, total_iterations, checkpoint, iteration, rangeNext,
                   netD, avg_param_G, optimizerG, optimizerD, gradG, gradD,
                   image, crops, run, steps, executed, liveG, gSteps, emaUpdates,
                   usedGradD, usedGradG, avg0>>

\* a second process started on the checkpoint the first one wrote; its
\* arguments keep the shadow within MaxUpdates updates
Resume ==
    /\ pc \in {"done", "aborted"}
    /\ run = 1
    /\ file # <<>>
    /\ \E a \in Args :
          /\ MaxExp(file[1].g_ema) + (a[2] - a[1] + 1) <= MaxUpdates
          /\ Fresh(a[1], a[2], "own")
    /\ run' = 2
    /\ UNCHANGED <<file, savedLive>>

Next ==
    \/ LoadCheckpoint
    \/ LoopHead
    \/ Forward
    \/ ZeroGradD
    \/ TrainDReal
    \/ TrainDFake
    \/ OptDStep
    \/ ZeroGradG
    \/ GBackward
    \/ OptGStep
    \/ EMAUpdate
    \/ Log
    \/ SelfCheck
    \/ Checkpoint
    \/ Resume

Spec == Init /\ [][Next]_vars

\* the loop body runs to completion once entered; a process that ended may be resumed
FairSpec == Spec /\ WF_vars(Next)

----------------------------------------------------------------------------
(* crop_image_by_part on images of every size *)

Idle ==
    /\ start_iter = 0
    /\ total_iterations = 0
    /\ checkpoint = "none"
    /\ iteration = 0
    /\ rangeNext = 0
    /\ netD = Discriminator
    /\ optimizerG = Adam(Generator)
    /\ optimizerD = Adam(Discriminator)
    /\ gradG = {}
    /\ gradD = {}
    /\ file = <<>>
    /\ failure = "none"
    /\ run = 1
    /\ steps = <<>>
    /\ executed = <<>>
    /\ completed = {}
    /\ saved = {}
    /\ savedLive = <<>>
    /\ swap = NoSwap
    /\ gSteps = 0
    /\ emaUpdates = 0
    /\ usedGradD = {}
    /\ usedGradG = {}

InitCrop ==
    /\ Idle
    /\ pc = "crop"
    /\ image \in [h : 1..MaxDim, w : 1..MaxDim]
    /\ crops = <<>>
    /\ netG = Generator
    /\ avg_param_G = copy_G_params(Generator)
    /\ liveG = Values(Generator)
    /\ avg0 = copy_G_params(Generator)

CropPart ==
    /\ pc = "crop"
    /\ \E part \in (0..3) \ DOMAIN crops :
          crops' = crops @@ (part :> crop_image_by_part(image, part))
    /\ UNCHANGED <<pc, start_iter, total_iterations, checkpoint, iteration,
                   rangeNext, netG, netD, avg_param_G, optimizerG, optimizerD,
                   gradG, gradD, file, image, failure, run, steps, executed,
                   completed, saved, savedLive, swap, liveG, gSteps, emaUpdates,
                   usedGradD, usedGradG, avg0>>

NextCrop == CropPart

SpecCrop == InitCrop /\ [][NextCrop]_vars

----------------------------------------------------------------------------
(* The EMA loop of lines 155-156 with the generator frozen *)

InitEMA ==
    /\ Idle
    /\ pc = "frozen"
    /\ image = [h |-> ImSize, w |-> ImSize]
    /\ crops = <<>>
    /\ \E v \in [1..Len(GKeys) -> Vals] :
          netG = [i \in 1..Len(GKeys) |-> [Generator[i] EXCEPT !.val = Val(v[i])]]
    /\ \E v \in [1..Len(GKeys) -> Vals] :
          avg_param_G = [i \in 1..Len(GKeys) |->
                            [shape |-> GShapes[i], val |-> Val(v[i])]]
    /\ liveG = Values(netG)
    /\ avg0 = avg_param_G

FrozenEMAUpdate ==
    /\ pc = "frozen"
    /\ emaUpdates < MaxUpdates
    /\ avg_param_G' = ema_loop(netG, avg_param_G).avg
    /\ emaUpdates' = emaUpdates + 1
    /\ UNCHANGED <<pc, start_iter, total_iterations, checkpoint, iteration,
                   rangeNext, netG, netD, optimizerG, optimizerD, gradG, gradD,
                   file, image, crops, failure, run, steps, executed, completed,
                   saved, savedLive, swap, liveG, gSteps, usedGradD, usedGradG,
                   avg0>>

NextEMA == FrozenEMAUpdate

SpecEMA == InitEMA /\ [][NextEMA]_vars

----------------------------------------------------------------------------
(* Properties *)

IsPrefix(s, t) == Len(s) <= Len(t) /\ \A i \in 1..Len(s) : s[i] = t[i]

ShadowValues(avg) == [i \in 1..Len(avg) |-> avg[i].val]

ClaimedOrder == <<"d_real", "d_fake", "optD", "g_backward", "optG", "ema">>

InClaimedOrder(name) == \E i \in 1..Len(ClaimedOrder) : ClaimedOrder[i] = name

\* C1: within an iteration the steps run in the order discriminator real,
\* discriminator fake, discriminator optimizer, generator backward, generator
\* optimizer, EMA update; every generator optimizer step is followed by exactly
\* one EMA update, which is over before the next iteration's forward pass.
C1_StepOrder ==
    /\ IsPrefix(SelectSeq(steps, InClaimedOrder), ClaimedOrder)
    /\ emaUpdates <= gSteps
    /\ gSteps <= emaUpdates + 1
    /\ (gSteps = emaUpdates + 1 => pc = "ema")
    /\ (pc = "forward" => emaUpdates = gSteps /\ steps = <<>>)
    /\ (pc = "log" /\ failure = "none" =>
            SelectSeq(steps, InClaimedOrder) = ClaimedOrder)

C1_Witness == pc = "forward" /\ Len(executed) = 2 /\ emaUpdates = 1 /\ gSteps = 1

SaveDue(i) == i % (save_interval * 50) = 0 \/ i = total_iterations

\* C2 as stated: a completed iteration wrote a checkpoint exactly when its index
\* is a multiple of 50 000 or equals total_iterations.
C2_Original == \A i \in completed : i \in saved <=> SaveDue(i)

\* C2 amended: a completed iteration wrote a checkpoint exactly when its index is
\* positive and is a multiple of 50 000 or equals total_iterations; iteration 0
\* never writes one.
C2_SavedExactlyWhenDue == \A i \in completed : i \in saved <=> (i > 0 /\ SaveDue(i))

C2_Witness ==
    /\ 50000 \in saved
    /\ total_iterations = 50001
    /\ 50001 \in saved

\* C3: outside a raised exception the generator holds the values the optimizer
\* (or the load) gave it, and after a self-check or checkpoint block both the
\* generator and the shadow equal their values from before the swap.
C3_SwapRestores ==
    pc # "aborted" =>
        /\ Values(netG) = liveG
        /\ (swap.at # "none" =>
                Values(netG) = swap.g /\ avg_param_G = swap.avg)

C3_Witness ==
    /\ pc = "forward"
    /\ swap.at = "ckpt"
    /\ Values(netG) # ShadowValues(avg_param_G)

\* C4: right after the load of the checkpoint train() wrote, before any
\* iteration, generator and discriminator weights, shadow and both optimizer
\* states equal the live state at the moment of the save.
C4_RoundTrip ==
    (pc = "loop" /\ checkpoint = "own" /\ executed = <<>>) => Live = savedLive[1]

C4_Witness ==
    /\ pc = "loop"
    /\ checkpoint = "own"
    /\ executed = <<>>
    /\ Values(netG) # Values(Generator)
    /\ ShadowValues(avg_param_G) # Values(netG)
    /\ optimizerG.state # <<>>

ShadowFits(avg, net) ==
    /\ Len(avg) = Len(net)
    /\ \A i \in 1..Len(net) : avg[i].shape = net[i].shape

OptFits(opt, net) ==
    /\ opt.n = Len(net)
    /\ opt.state # <<>> =>
          /\ Len(opt.state) = Len(net)
          /\ \A i \in 1..Len(net) : opt.state[i].shape = net[i].shape

\* C5: no iteration starts with an EMA shadow or optimizer state whose tensor
\* count or shapes differ from the model's.
C5_NoMismatchedIteration ==
    pc = "forward" =>
        /\ ShadowFits(avg_param_G, netG)
        /\ OptFits(optimizerG, netG)
        /\ OptFits(optimizerD, netD)

\* C6: in a run started without a checkpoint or on its own checkpoint, a failed
\* log line or checkpoint write never aborts the loop.
C6_SideEffectNotFatal ==
    checkpoint \in {"none", "own"} =>
        ~(pc = "aborted" /\ failure \in {"log", "save"})

\* C7: for an image of even height and width the four crops are pairwise
\* disjoint and together cover every pixel.
C7_QuadrantsPartition ==
    (DOMAIN crops = 0..3 /\ image.h % 2 = 0 /\ image.w % 2 = 0) =>
        /\ \A a, b \in 0..3 : a # b => crops[a] \cap crops[b] = {}
        /\ UNION {crops[a] : a \in 0..3} = Pixels(image)

C7_Witness ==
    /\ DOMAIN crops = 0..3
    /\ image.h = 2
    /\ image.w = 4
    /\ \A a \in 0..3 : crops[a] # {}

Abs(a) == IF a >= 0 THEN a ELSE 0 - a

\* C8: after N updates against a generator held at P,
\* |shadow_N - P| = 0.999^N * |shadow_0 - P|, both sides scaled by 1000^N.
C8_Decay ==
    pc = "frozen" =>
        \A i \in 1..Len(avg_param_G) :
            /\ avg_param_G[i].val[2] = emaUpdates
            /\ Abs(avg_param_G[i].val[1]
                     - netG[i].val[1] * Pow(DecayDen, emaUpdates))
               = Pow(DecayNum, emaUpdates) * Abs(avg0[i].val[1] - netG[i].val[1])

C8_Witness ==
    /\ pc = "frozen"
    /\ emaUpdates = 2
    /\ avg0[1].val # netG[1].val
    /\ avg0[2].val # netG[2].val

Range(a, b) == [k \in 1..(b - a + 1) |-> a + k - 1]

\* C9 as stated: train() returns only after running iteration total_iterations last.
C9_Original ==
    pc = "done" => executed # <<>> /\ executed[Len(executed)] = total_iterations

C9_Safety ==
    /\ IsPrefix(executed, Range(start_iter, total_iterations))
    /\ (pc = "done" /\ start_iter <= total_iterations =>
            /\ executed = Range(start_iter, total_iterations)
            /\ iteration = total_iterations)
    /\ (executed # <<>> /\ executed[Len(executed)] = total_iterations
            /\ total_iterations \in completed => pc \in {"loop", "done"})

\* C9 amended: with start_iter <= total_iterations train() ends (it returns or
\* raises); when it returns the iterations run were start_iter..total_iterations,
\* each once, in increasing order, total_iterations last.
C9_Terminates == []C9_Safety /\ <>(pc \in {"done", "aborted"})

C9_Witness ==
    /\ pc = "done"
    /\ run = 1
    /\ Len(executed) = 2
    /\ executed[2] = total_iterations

\* C10: the discriminator optimizer steps on gradients of this iteration's real
\* and fake discriminator steps only, the generator optimizer on gradients of
\* this iteration's generator loss only.
C10_GradientIsolation ==
    /\ (pc = "optD" =>
            gradD = {Src(iteration, "d_real"), Src(iteration, "d_fake")})
    /\ (pc = "optG" => gradG = {Src(iteration, "g")})
    /\ (pc \in {"g_zero", "g_backward", "optG", "ema", "log"} /\ failure = "none" =>
            usedGradD = {Src(iteration, "d_real"), Src(iteration, "d_fake")})
    /\ (pc \in {"ema", "log"} /\ failure = "none" =>
            usedGradG = {Src(iteration, "g")})

C10_Witness ==
    /\ pc = "optD"
    /\ Len(executed) = 2
    /\ usedGradG = {Src(iteration - 1, "g")}

====
